---- MODULE Spec2Model ----
(***************************************************************************)
(* Procedural island generation on a grid of boxes: grid.js (Grid, Box),   *)
(* islands.js in its two revisions (src/unnamed/part_001, the revision     *)
(* that passes the grid around, and src/unnamed/part_002, the revision     *)
(* that works on the global myGrid and on statesArray() copies) and        *)
(* sketch.js (setup, treePlace, spreadTrees, keyReleased).                 *)
(*                                                                         *)
(* Real numbers are kept as integers in thousandths: 0.05 is 50, 1.5 is    *)
(* 1500, a neighbour counts 1000 and a diagonal one 500.  A value of       *)
(* Math.random() is k / RandRes for k in 0 .. RandRes-1, kept as k.        *)
(***************************************************************************)
EXTENDS Integers, Sequences, FiniteSets, TLC

VARIABLES
    script,            \* which islands.js runs: "part_001" or "part_002"
    myGrid,            \* the Grid object: boxArray, width, height, margins
    islandProperties,  \* {minDim, maxDim, minCount, maxCount}
    pc,                \* the function that is running, "idle" when none is
    todo,              \* the calls initializeGrid still has to make
    islands,           \* generateIslands: loop counter
    newIsland,         \* generateIslands: the island of this iteration
    stopped,           \* generateIslands: the early-stop draw said stop
    passes,            \* weatherGrid: parameter
    checkedState,      \* weatherGrid: parameter
    newState,          \* weatherGrid: parameter
    i,                 \* weatherGrid: pass counter
    x,                 \* column of the cell the running loop visits next
    y,                 \* row of the cell the running loop visits next
    formerGrid,        \* weatherGrid: what the name formerGrid denotes
    passStart,         \* history: the states when the running pass began
    r,                 \* the value Math.random() gave the last loop round
                       \* (its numerator), -1 when the round drew none
    numTrees,          \* treePlace: loop counter
    maxTrees,          \* treePlace: parameter
    neighbors,         \* the value the last checkNeighbors call returned
    thrown             \* the exception that ended the last call, or "none"

vars == <<script, myGrid, islandProperties, pc, todo, islands, newIsland,
          stopped, passes, checkedState, newState, i, x, y, formerGrid,
          passStart, r, numTrees, maxTrees, neighbors, thrown>>

----------------------------------------------------------------------------
(* Bounds of the model *)

Boxes == 6             \* boxes per row and column (islands.js ships 50)
MinDim == 1            \* islandProperties.minDim (ships boxes/10)
MaxDim == 3            \* islandProperties.maxDim (ships boxes/2)
MinCount == 1          \* islandProperties.minCount (ships 6)
MaxCount == 4          \* islandProperties.maxCount (ships 15)
WeatheringPasses == 2  \* weatheringPasses (ships 10)
RandRes == 4           \* Math.random() returns k / RandRes
MaxTreesArg == 2       \* largest maxTrees a treePlace call is given

\* the longest stroke of cells in a drawn grid: half a row
MaxStroke == Boxes \div 2

(* Program constants *)

Margin == 2            \* let margin = 2
BreakChance == 100     \* let breakChance = 0.1
NeighborChance == 50   \* let neighborChance = 0.05
MinNeighbors == 1500   \* let minNeighbors = 1.5
SpreadChance == 150    \* spreadTrees(0.15)
One == 1000            \* 1.0 in thousandths

Draws == 0 .. (RandRes - 1)

----------------------------------------------------------------------------
(* grid.js *)

BoxStates == [water |-> "water", land |-> "land", tree |-> "tree"]

States == {BoxStates.water, BoxStates.land, BoxStates.tree}

waterColor == <<0, 112, 236>>
landColor == <<128, 208, 16>>
treeColor == <<0, 168, 0>>

\* no colour: "this.fillColor;" before setState, or a switch that returns
\* nothing
noColor == <<>>

\* Box.getColorFromState, for a box whose currentState is s
getColorFromState(s) ==
    CASE s = BoxStates.water -> waterColor
      [] s = BoxStates.land -> landColor
      [] s = BoxStates.tree -> treeColor
      [] OTHER -> noColor

\* setState as it would be without its second statement
setStateOnly(box, s) == [box EXCEPT !.currentState = s]

\* Box.setState: the box after this.setState(s)
setState(box, s) ==
    [box EXCEPT !.currentState = s, !.fillColor = getColorFromState(s)]

\* Box as it would be without the default for a missing initState
BoxWithoutDefault(initState) ==
    setState([currentState |-> "undefined", fillColor |-> noColor],
             initState)

\* new Box(xPos, yPos, width, initState): only state and colour are kept;
\* "this.setState(initState === undefined ? BoxStates.water : initState)"
Box(initState) ==
    setState([currentState |-> "undefined", fillColor |-> noColor],
             IF initState = "undefined" THEN BoxStates.water ELSE initState)

\* new Grid(boxesPerRow, canvasDim, margin)
Grid(boxesPerRow, margin) ==
    [boxArray |-> [cx \in 0 .. (boxesPerRow - 1) |->
                     [cy \in 0 .. (boxesPerRow - 1) |-> Box("undefined")]],
     width |-> boxesPerRow,
     height |-> boxesPerRow,
     lowMargin |-> margin,
     highXMargin |-> boxesPerRow - margin,
     highYMargin |-> boxesPerRow - margin]

\* statesArray as it would be with temp filled along x and states along y
statesArrayByRows(grid) ==
    [cy \in 0 .. (grid.height - 1) |->
        [cx \in 0 .. (grid.width - 1) |-> grid.boxArray[cx][cy].currentState]]

\* Grid.statesArray(): a fresh array of the boxes' states
statesArray(grid) ==
    [cx \in 0 .. (grid.width - 1) |->
        [cy \in 0 .. (grid.height - 1) |-> grid.boxArray[cx][cy].currentState]]

\* grid.boxArray[cx][cy].setState(s)
SetBox(grid, cx, cy, s) ==
    [grid EXCEPT !.boxArray[cx][cy] = setState(@, s)]

----------------------------------------------------------------------------
(* Cells and the loops over them *)

Cells == (0 .. (Boxes - 1)) \X (0 .. (Boxes - 1))

\* the cells the loops "for x = lowMargin; x < highXMargin" and
\* "for y = lowMargin; y < highYMargin" visit
LoopCells(grid) ==
    (grid.lowMargin .. (grid.highXMargin - 1)) \X
    (grid.lowMargin .. (grid.highYMargin - 1))

\* LoopStart as it would be if the loops began at the edge of the grid
LoopStartAtEdge(grid) == 0

\* the first value of x in "for x = lowMargin; ..."
LoopStart(grid) == grid.lowMargin

\* the loop is over when x has reached highXMargin
LoopDone(grid, cx) == ~(cx < grid.highXMargin)

\* the cell visited after (cx, cy): y++ in the inner loop, then x++
NextCell(grid, cx, cy) ==
    IF cy + 1 < grid.highYMargin THEN <<cx, cy + 1>>
    ELSE <<cx + 1, LoopStart(grid)>>

----------------------------------------------------------------------------
(* islands.js: checkNeighbors and randomNumberGenerator *)

Abs(n) == IF n < 0 THEN -n ELSE n

\* "x + a < 0 || x + a >= myGrid.width": the column is not in the grid
ColumnOutside(c) == c < 0 \/ c >= myGrid.width

\* RowOutside as it would be with ">" written for ">="
RowOutsideOffByOne(d) == d < 0 \/ d > myGrid.height

\* "y + b < 0 || y + b >= myGrid.height": the row is not in the grid
RowOutside(d) == d < 0 \/ d >= myGrid.height

\* "a === 0 && b === 0": the starting tile
StartingTile(a, b) == a = 0 /\ b = 0

\* arrayToCheck[c][d]; JavaScript gives undefined past the end of an array
ReadState(arrayToCheck, c, d) ==
    IF c \in DOMAIN arrayToCheck /\ d \in DOMAIN arrayToCheck[c]
    THEN arrayToCheck[c][d]
    ELSE "undefined"

\* the indices checkNeighbors(_, cx, cy, _) reads from arrayToCheck
NeighborReads(cx, cy) ==
    {<<cx + a, cy + b>> : <<a, b>> \in
        {ab \in (-1 .. 1) \X (-1 .. 1) :
            /\ ~ColumnOutside(cx + ab[1])
            /\ ~RowOutside(cy + ab[2])
            /\ ~StartingTile(ab[1], ab[2])}}

\* what one matching neighbour adds: 0.5 when diagonal, 1 otherwise
Influence(a, b) == IF Abs(a) = Abs(b) THEN One \div 2 ELSE One

RECURSIVE RowLoop(_, _, _, _, _, _)
\* "for(let b = -1; b < 2; b++)" from b on, in column x + a
RowLoop(arrayToCheck, cx, cy, checkState, a, b) ==
    IF ~(b < 2) THEN 0
    ELSE (IF RowOutside(cy + b) THEN 0
          ELSE IF StartingTile(a, b) THEN 0
          ELSE IF ReadState(arrayToCheck, cx + a, cy + b) = checkState
               THEN Influence(a, b)
               ELSE 0)
         + RowLoop(arrayToCheck, cx, cy, checkState, a, b + 1)

RECURSIVE ColumnLoop(_, _, _, _, _)
\* "for(let a = -1; a < 2; a++)" from a on
ColumnLoop(arrayToCheck, cx, cy, checkState, a) ==
    IF ~(a < 2) THEN 0
    ELSE (IF ColumnOutside(cx + a) THEN 0
          ELSE RowLoop(arrayToCheck, cx, cy, checkState, a, -1))
         + ColumnLoop(arrayToCheck, cx, cy, checkState, a + 1)

\* checkNeighbors(arrayToCheck, x, y, checkState), in thousandths
checkNeighbors(arrayToCheck, cx, cy, checkState) ==
    ColumnLoop(arrayToCheck, cx, cy, checkState, -1)

\* randomNumberGenerator(min, max) when Math.random() returns k / RandRes:
\* Math.floor(k / RandRes * (max - min) + min), for an integer min
randomNumberGenerator(min, max, k) == min + ((k * (max - min)) \div RandRes)

\* "Math.random() < chance * count" with chance and count in thousandths
RandomBelowProduct(k, chance, count) ==
    k * One * One < RandRes * chance * count

----------------------------------------------------------------------------
(* islands.js: generateIslands *)

\* FitWithinMargin as it would be without the resizing
FitNothing(corner, dim, highMargin) == dim

\* "if(corner + dim > highMargin) dim = highMargin - corner"
FitWithinMargin(corner, dim, highMargin) ==
    IF corner + dim > highMargin THEN highMargin - corner ELSE dim

\* ResizeToFit as it would be if it moved the corner back to make room
ResizeByShifting(grid, island) ==
    [island EXCEPT
        !.cornerX = IF @ + island.width > grid.highXMargin
                    THEN grid.highXMargin - island.width ELSE @,
        !.cornerY = IF @ + island.height > grid.highYMargin
                    THEN grid.highYMargin - island.height ELSE @]

\* "Make sure the island fits within the margins and resize if necessary"
ResizeToFit(grid, island) ==
    [island EXCEPT
        !.width = FitWithinMargin(island.cornerX, @, grid.highXMargin),
        !.height = FitWithinMargin(island.cornerY, @, grid.highYMargin)]

\* CornerLimit as it would be if no room were left for an island
CornerLimitAtMargin(highMargin, props) == highMargin

\* "myGrid.highXMargin - islandProperties.minDim": the exclusive upper
\* bound of the draw of a corner
CornerLimit(highMargin, props) == highMargin - props.minDim

\* the island one iteration defines, from the four draws of its corner and
\* dimensions, after it was resized to fit
DrawIsland(grid, props, kx, ky, kw, kh) ==
    LET cornerX == randomNumberGenerator(grid.lowMargin,
                       CornerLimit(grid.highXMargin, props), kx)
        cornerY == randomNumberGenerator(grid.lowMargin,
                       CornerLimit(grid.highYMargin, props), ky)
        width == randomNumberGenerator(props.minDim, props.maxDim + 1, kw)
        height == randomNumberGenerator(props.minDim, props.maxDim + 1, kh)
    IN  ResizeToFit(grid, [cornerX |-> cornerX, cornerY |-> cornerY,
                           width |-> width, height |-> height])

\* IslandCells as it would be with "<=" written for "<" in both loops
IslandCellsInclusive(island) ==
    (island.cornerX .. (island.cornerX + island.width)) \X
    (island.cornerY .. (island.cornerY + island.height))

\* the index pairs the two placement loops go through
IslandCells(island) ==
    (island.cornerX .. (island.cornerX + island.width - 1)) \X
    (island.cornerY .. (island.cornerY + island.height - 1))

\* boxArray[c[1]][c[2]] is a Box
InArray(grid, c) ==
    c[1] \in 0 .. (grid.width - 1) /\ c[2] \in 0 .. (grid.height - 1)

\* the placement loops reach c before d
Before(c, d) == c[1] < d[1] \/ (c[1] = d[1] /\ c[2] < d[2])

\* boxArray[x][y].setState throws a TypeError at the first index pair that
\* is no Box: the cells written are those the loops reach before it
IslandWritten(grid, island) ==
    {c \in IslandCells(island) :
        /\ InArray(grid, c)
        /\ \A d \in IslandCells(island) : InArray(grid, d) \/ Before(c, d)}

\* the placement loops throw
IslandThrows(grid, island) ==
    \E d \in IslandCells(island) : ~InArray(grid, d)

\* the grid after setState(s) on every cell of the set
SetBoxes(grid, cells, s) ==
    [grid EXCEPT !.boxArray =
        [cx \in DOMAIN @ |-> [cy \in DOMAIN @[cx] |->
            IF <<cx, cy>> \in cells THEN setState(@[cx][cy], s)
            ELSE @[cx][cy]]]]

\* the grid after the placement loops
PlaceIsland(grid, island) ==
    SetBoxes(grid, IslandWritten(grid, island), BoxStates.land)

\* StopChecked as it would be if the draw were made from minCount on
StopCheckedFromMinCount(props, n) == n >= props.minCount /\ n < props.maxCount

\* "islands > minCount && islands < maxCount": the stop draw is made
StopChecked(props, n) == n > props.minCount /\ n < props.maxCount

\* remainingSlots as it would be if the round under way were counted out
remainingSlotsAfterRound(props, n) ==
    (props.maxCount - props.minCount) - (n + 1 - props.minCount)

\* "(islandProperties.maxCount - islandProperties.minCount) -
\*  (islands - islandProperties.minCount)": the divisor of currentStopChance
remainingSlots(props, n) ==
    (props.maxCount - props.minCount) - (n - props.minCount)

\* currentStopChance times its divisor, in thousandths:
\* "breakChance + ((1 - breakChance) / remaining)" is this over remaining
StopChanceTimesSlots(props, n) ==
    BreakChance * remainingSlots(props, n) + (One - BreakChance)

\* "Math.random() < currentStopChance"; a divisor of 0 makes the chance
\* Infinity, a negative one turns the comparison round
StopDrawn(props, n, k) ==
    LET remaining == remainingSlots(props, n)
    IN  IF remaining > 0
        THEN k * One * remaining < RandRes * StopChanceTimesSlots(props, n)
        ELSE IF remaining = 0 THEN TRUE
        ELSE k * One * remaining > RandRes * StopChanceTimesSlots(props, n)

----------------------------------------------------------------------------
(* Calls and returns *)

\* the island object before its fields are drawn
NoIsland == [cornerX |-> 0, cornerY |-> 0, width |-> 0, height |-> 0]

\* a function returns: initializeGrid goes on with its next call
Return ==
    IF todo = <<>>
    THEN pc' = "idle" /\ todo' = todo
    ELSE pc' = Head(todo) /\ todo' = Tail(todo)

\* the local variables of the functions, when none of them runs
NoLocals ==
    /\ islands = 0
    /\ newIsland = NoIsland
    /\ stopped = FALSE
    /\ passes = 0
    /\ checkedState = "none"
    /\ newState = "none"
    /\ i = 0
    /\ x = 0
    /\ y = 0
    /\ formerGrid = <<>>
    /\ passStart = <<>>
    /\ r = -1
    /\ numTrees = 0
    /\ maxTrees = 0
    /\ neighbors = 0

\* a function is left: its local variables are gone
DropLocals ==
    /\ islands' = 0
    /\ newIsland' = NoIsland
    /\ stopped' = FALSE
    /\ passes' = 0
    /\ checkedState' = "none"
    /\ newState' = "none"
    /\ i' = 0
    /\ x' = 0
    /\ y' = 0
    /\ formerGrid' = <<>>
    /\ passStart' = <<>>
    /\ r' = -1
    /\ numTrees' = 0
    /\ maxTrees' = 0
    /\ neighbors' = 0

\* the states of a freshly built program: setup has set the colours and
\* initializeGrid has made "new Grid(boxes, canvasDimensions, margin)"
InitializeGrid ==
    /\ myGrid = Grid(Boxes, Margin)
    /\ islandProperties = [minDim |-> MinDim, maxDim |-> MaxDim,
                           minCount |-> MinCount, maxCount |-> MaxCount]
    /\ pc = "generateIslands"
    /\ todo = <<"weatherLand", "weatherWater", "cleanGrid">>
    /\ thrown = "none"
    /\ NoLocals

\* one iteration of the loop of generateIslands
GenerateIsland ==
    /\ pc = "generateIslands"
    /\ ~stopped
    /\ islands < islandProperties.maxCount
    /\ \E kx, ky, kw, kh \in Draws :
        LET island == DrawIsland(myGrid, islandProperties, kx, ky, kw, kh)
        IN  /\ newIsland' = island
            /\ myGrid' = PlaceIsland(myGrid, island)
            /\ IF IslandThrows(myGrid, island)
               THEN /\ pc' = "idle"
                    /\ todo' = <<>>
                    /\ thrown' = "TypeError"
                    /\ UNCHANGED <<islands, stopped, r>>
               ELSE /\ UNCHANGED <<pc, todo, thrown>>
                    /\ IF StopChecked(islandProperties, islands)
                       THEN \E ks \in Draws :
                            /\ r' = ks
                            /\ stopped' = StopDrawn(islandProperties, islands, ks)
                            /\ islands' = IF stopped' THEN islands
                                          ELSE islands + 1
                       ELSE /\ UNCHANGED <<r, stopped>>
                            /\ islands' = islands + 1
    /\ UNCHANGED <<script, islandProperties, passes, checkedState, newState,
                   i, x, y, formerGrid, passStart, numTrees, maxTrees,
                   neighbors>>

\* the loop of generateIslands is over: the function returns
GenerateIslandsReturn ==
    /\ pc = "generateIslands"
    /\ stopped \/ ~(islands < islandProperties.maxCount)
    /\ Return
    /\ DropLocals
    /\ UNCHANGED <<script, myGrid, islandProperties, thrown>>

----------------------------------------------------------------------------
(* islands.js: weatherGrid *)

\* The states read through the name formerGrid once the grid has become
\* grid2.  part_002: "let formerGrid = myGrid.statesArray()" names a fresh
\* array, which no setState changes.  part_001: "let formerGrid =
\* gridToModify" names the grid itself, so formerGrid.boxArray[x][y]
\* .currentState is the state the grid has now.
FormerGridNow(former, grid2) ==
    IF script = "part_001" THEN statesArray(grid2) ELSE former

\* EnterWeatherGrid as it would be with the two states taken in the other
\* order
EnterWeatherGridSwapped(p, from, to) ==
    /\ passes' = p
    /\ checkedState' = to
    /\ newState' = from
    /\ i' = 0
    /\ pc' = "weatherGrid"

\* weatherGrid(passes, checkedState, newState) is entered
EnterWeatherGrid(p, from, to) ==
    /\ passes' = p
    /\ checkedState' = from
    /\ newState' = to
    /\ i' = 0
    /\ pc' = "weatherGrid"

\* initializeGrid calls weatherGrid(weatheringPasses, water, land)
CallWeatherLand ==
    /\ pc = "weatherLand"
    /\ EnterWeatherGrid(WeatheringPasses, BoxStates.water, BoxStates.land)
    /\ UNCHANGED <<script, myGrid, islandProperties, todo, islands, newIsland,
                   stopped, x, y, formerGrid, passStart, r, numTrees,
                   maxTrees, neighbors, thrown>>

\* initializeGrid calls weatherGrid(weatheringPasses, land, water)
CallWeatherWater ==
    /\ pc = "weatherWater"
    /\ EnterWeatherGrid(WeatheringPasses, BoxStates.land, BoxStates.water)
    /\ UNCHANGED <<script, myGrid, islandProperties, todo, islands, newIsland,
                   stopped, x, y, formerGrid, passStart, r, numTrees,
                   maxTrees, neighbors, thrown>>

\* HasCheckedState as it would be without the test of the state
HasAnyState(former, cx, cy, s) == TRUE

\* "formerGrid[x][y] === checkedState"
HasCheckedState(former, cx, cy, s) == ReadState(former, cx, cy) = s

\* "for(let i = 0; i < passes; i++)": a pass begins
WeatherPassBegin ==
    /\ pc = "weatherGrid"
    /\ i < passes
    /\ formerGrid' = statesArray(myGrid)
    /\ passStart' = statesArray(myGrid)
    /\ x' = LoopStart(myGrid)
    /\ y' = LoopStart(myGrid)
    /\ pc' = "weatherPass"
    /\ UNCHANGED <<script, myGrid, islandProperties, todo, islands, newIsland,
                   stopped, passes, checkedState, newState, i, r, numTrees,
                   maxTrees, neighbors, thrown>>

\* the body of the two loops over the cells, for the cell (x, y)
WeatherCell ==
    /\ pc = "weatherPass"
    /\ ~LoopDone(myGrid, x)
    /\ IF HasCheckedState(formerGrid, x, y, checkedState)
       THEN \E k \in Draws :
            LET n == checkNeighbors(formerGrid, x, y, newState)
            IN  /\ r' = k
                /\ myGrid' = IF RandomBelowProduct(k, NeighborChance, n)
                             THEN SetBox(myGrid, x, y, newState)
                             ELSE myGrid
       ELSE r' = -1 /\ UNCHANGED myGrid
    /\ formerGrid' = FormerGridNow(formerGrid, myGrid')
    /\ x' = NextCell(myGrid, x, y)[1]
    /\ y' = NextCell(myGrid, x, y)[2]
    /\ UNCHANGED <<script, islandProperties, pc, todo, islands, newIsland,
                   stopped, passes, checkedState, newState, i, passStart,
                   numTrees, maxTrees, neighbors, thrown>>

\* the loops over the cells are over: i++
WeatherPassEnd ==
    /\ pc = "weatherPass"
    /\ LoopDone(myGrid, x)
    /\ i' = i + 1
    /\ pc' = "weatherGrid"
    /\ UNCHANGED <<script, myGrid, islandProperties, todo, islands, newIsland,
                   stopped, passes, checkedState, newState, x, y, formerGrid,
                   passStart, r, numTrees, maxTrees, neighbors, thrown>>

\* all passes are made: weatherGrid returns
WeatherReturn ==
    /\ pc = "weatherGrid"
    /\ ~(i < passes)
    /\ Return
    /\ DropLocals
    /\ UNCHANGED <<script, myGrid, islandProperties, thrown>>

----------------------------------------------------------------------------
(* islands.js: cleanGrid *)

\* CleanSwitch as it would be without its "case BoxStates.land"
CleanSwitchWaterOnly(s) == IF s = BoxStates.water THEN BoxStates.land ELSE s

\* CleanSwitch as it would be with the water case written as "default"
CleanSwitchDefault(s) ==
    IF s = BoxStates.land THEN BoxStates.water ELSE BoxStates.land

\* the switch on currentBox.currentState: the state the box is given
CleanSwitch(s) ==
    CASE s = BoxStates.land -> BoxStates.water
      [] s = BoxStates.water -> BoxStates.land
      [] OTHER -> s

\* TooFewNeighbors as it would be with "<=" written for "<"
TooFewNeighborsInclusive(n) == n <= MinNeighbors

\* "neighbors < minNeighbors"
TooFewNeighbors(n) == n < MinNeighbors

\* the array cleanGrid hands to checkNeighbors for one cell: part_002 calls
\* myGrid.statesArray() anew for every cell, part_001 hands over the grid
CleanArray(grid) == statesArray(grid)

\* cleanGrid is entered
CallCleanGrid ==
    /\ pc = "cleanGrid"
    /\ passStart' = statesArray(myGrid)
    /\ x' = LoopStart(myGrid)
    /\ y' = LoopStart(myGrid)
    /\ pc' = "cleanPass"
    /\ UNCHANGED <<script, myGrid, islandProperties, todo, islands, newIsland,
                   stopped, passes, checkedState, newState, i, formerGrid, r,
                   numTrees, maxTrees, neighbors, thrown>>

\* the body of the two loops over the cells, for the cell (x, y)
CleanCell ==
    /\ pc = "cleanPass"
    /\ ~LoopDone(myGrid, x)
    /\ LET currentState == myGrid.boxArray[x][y].currentState
           n == checkNeighbors(CleanArray(myGrid), x, y, currentState)
       IN  myGrid' = IF TooFewNeighbors(n)
                     THEN SetBox(myGrid, x, y, CleanSwitch(currentState))
                     ELSE myGrid
    /\ x' = NextCell(myGrid, x, y)[1]
    /\ y' = NextCell(myGrid, x, y)[2]
    /\ UNCHANGED <<script, islandProperties, pc, todo, islands, newIsland,
                   stopped, passes, checkedState, newState, i, formerGrid,
                   passStart, r, numTrees, maxTrees, neighbors, thrown>>

\* the loops are over: cleanGrid returns
CleanReturn ==
    /\ pc = "cleanPass"
    /\ LoopDone(myGrid, x)
    /\ Return
    /\ DropLocals
    /\ UNCHANGED <<script, myGrid, islandProperties, thrown>>

----------------------------------------------------------------------------
(* sketch.js: treePlace, spreadTrees, keyReleased *)

\* sketch.js belongs to the part_002 revision (it reads the global myGrid);
\* the sketch of the part_001 revision leaves both functions to be written
HasTreeFunctions == script = "part_002"

\* treePlace(minTrees, maxTrees) is called
CallTreePlace ==
    /\ pc = "idle"
    /\ HasTreeFunctions
    /\ \E m \in 0 .. MaxTreesArg : maxTrees' = m
    /\ numTrees' = 0
    /\ pc' = "treePlace"
    /\ thrown' = "none"
    /\ UNCHANGED <<script, myGrid, islandProperties, todo, islands, newIsland,
                   stopped, passes, checkedState, newState, i, x, y,
                   formerGrid, passStart, r, neighbors>>

\* TreeLoopGoesOn as it would be with "<=" written for "<"
TreeLoopGoesOnInclusive(n, max) == n <= max

\* "numTrees < maxTrees": the for loop of treePlace makes another round
TreeLoopGoesOn(n, max) == n < max

\* TreeGoesOn as it would be with the test made for water
TreeGoesOnWater(grid, cx, cy) ==
    grid.boxArray[cx][cy].currentState = BoxStates.water

\* TreeGoesOn as it would be without the test of the box's state
TreeGoesAnywhere(grid, cx, cy) == TRUE

\* "myGrid.boxArray[xCoord][yCoord].currentState === BoxStates.land"
TreeGoesOn(grid, cx, cy) ==
    grid.boxArray[cx][cy].currentState = BoxStates.land

\* one round of "while(!valid)": a coordinate is drawn and, when the box
\* there is land, made a tree, which ends the while loop (numTrees++)
TreePlacePick ==
    /\ pc = "treePlace"
    /\ TreeLoopGoesOn(numTrees, maxTrees)
    /\ \E kx, ky \in Draws :
        LET xCoord == randomNumberGenerator(myGrid.lowMargin,
                          myGrid.highXMargin, kx)
            yCoord == randomNumberGenerator(myGrid.lowMargin,
                          myGrid.highYMargin, ky)
        IN  IF TreeGoesOn(myGrid, xCoord, yCoord)
            THEN /\ myGrid' = SetBox(myGrid, xCoord, yCoord, BoxStates.tree)
                 /\ numTrees' = numTrees + 1
            ELSE UNCHANGED <<myGrid, numTrees>>
    /\ UNCHANGED <<script, islandProperties, pc, todo, islands, newIsland,
                   stopped, passes, checkedState, newState, i, x, y,
                   formerGrid, passStart, r, maxTrees, neighbors, thrown>>

\* "numTrees < maxTrees" fails: treePlace returns
TreePlaceReturn ==
    /\ pc = "treePlace"
    /\ ~TreeLoopGoesOn(numTrees, maxTrees)
    /\ Return
    /\ DropLocals
    /\ UNCHANGED <<script, myGrid, islandProperties, thrown>>

\* "BoxeStates" is declared in no script: reading it throws
BoxeStatesDeclared == FALSE

\* keyReleased with keyCode 32 calls spreadTrees(0.15), whose first loop
\* round reads BoxeStates.land
KeyReleased ==
    /\ pc = "idle"
    /\ HasTreeFunctions
    /\ IF LoopCells(myGrid) # {} /\ ~BoxeStatesDeclared
       THEN thrown' = "ReferenceError"
       ELSE thrown' = "none"
    /\ UNCHANGED <<script, myGrid, islandProperties, pc, todo, islands,
                   newIsland, stopped, passes, checkedState, newState, i, x,
                   y, formerGrid, passStart, r, numTrees, maxTrees, neighbors>>

----------------------------------------------------------------------------
(* The program: setup runs initializeGrid, then keys and calls arrive *)

Init ==
    /\ script = "part_002"
    /\ InitializeGrid

Next ==
    \/ GenerateIsland
    \/ GenerateIslandsReturn
    \/ CallWeatherLand
    \/ CallWeatherWater
    \/ WeatherPassBegin
    \/ WeatherCell
    \/ WeatherPassEnd
    \/ WeatherReturn
    \/ CallCleanGrid
    \/ CleanCell
    \/ CleanReturn
    \/ CallTreePlace
    \/ TreePlacePick
    \/ TreePlaceReturn
    \/ KeyReleased

Spec == Init /\ [][Next]_vars

\* The program with its random draws taken as fair: a function that can
\* take a step takes one, and a round of "while(!valid)" whose draws can
\* fall on a land box does not miss the land boxes for ever
SpecFair ==
    /\ Init
    /\ [][Next]_vars
    /\ WF_vars(TreePlacePick)
    /\ WF_vars(TreePlaceReturn)

----------------------------------------------------------------------------
(* The part_001 revision: its sketch calls initializeGrid and nothing else *)

InitStarter ==
    /\ script = "part_001"
    /\ InitializeGrid

NextStarter ==
    \/ GenerateIsland
    \/ GenerateIslandsReturn
    \/ CallWeatherLand
    \/ CallWeatherWater
    \/ WeatherPassBegin
    \/ WeatherCell
    \/ WeatherPassEnd
    \/ WeatherReturn
    \/ CallCleanGrid
    \/ CleanCell
    \/ CleanReturn

SpecStarter == InitStarter /\ [][NextStarter]_vars

----------------------------------------------------------------------------
(* Grids for the functions taken alone.  weatherGrid, cleanGrid and        *)
(* checkNeighbors work on whatever grid they find: any Box can be given    *)
(* any state through setState.  The grids drawn here are striped or        *)
(* chequered in two states, or carry one stroke of up to MaxStroke cells   *)
(* of one state on a ground of another.                                    *)

\* the grid of the given margin whose boxes were given the states of array
GridOfStates(margin, array) ==
    [Grid(Boxes, margin) EXCEPT !.boxArray =
        [cx \in DOMAIN @ |-> [cy \in DOMAIN @[cx] |->
            setState(@[cx][cy], array[cx][cy])]]]

\* stripes along x ("x"), along y ("y"), or a chequerboard ("xy")
StripedStates(kind, a, b) ==
    [cx \in 0 .. (Boxes - 1) |-> [cy \in 0 .. (Boxes - 1) |->
        LET n == CASE kind = "x" -> cx
                   [] kind = "y" -> cy
                   [] OTHER -> cx + cy
        IN  IF n % 2 = 0 THEN a ELSE b]]

\* len cells of state a from cell c on, along x or along y, on ground b
StrokeStates(c, len, kind, a, b) ==
    [cx \in 0 .. (Boxes - 1) |-> [cy \in 0 .. (Boxes - 1) |->
        IF kind = "x"
        THEN (IF cy = c[2] /\ cx >= c[1] /\ cx < c[1] + len THEN a ELSE b)
        ELSE (IF cx = c[1] /\ cy >= c[2] /\ cy < c[2] + len THEN a ELSE b)]]

DrawnStates ==
    {StripedStates(kind, a, b) : kind \in {"x", "y", "xy"}, a \in States,
                                 b \in States}
    \cup {StrokeStates(c, len, kind, a, b) : c \in Cells, len \in 1 .. MaxStroke,
                                             kind \in {"x", "y"}, a \in States,
                                             b \in States}

\* a drawn grid is in place and no function runs yet
DrawnGrid(margins) ==
    /\ \E m \in margins, array \in DrawnStates :
           myGrid = GridOfStates(m, array)
    /\ islandProperties = [minDim |-> MinDim, maxDim |-> MaxDim,
                           minCount |-> MinCount, maxCount |-> MaxCount]
    /\ todo = <<>>
    /\ thrown = "none"

----------------------------------------------------------------------------
(* cleanGrid taken alone, on a drawn grid, in either revision *)

InitClean ==
    /\ script \in {"part_001", "part_002"}
    /\ DrawnGrid(0 .. Margin)
    /\ pc = "cleanGrid"
    /\ NoLocals

NextClean ==
    \/ CallCleanGrid
    \/ CleanCell
    \/ CleanReturn

SpecClean == InitClean /\ [][NextClean]_vars

----------------------------------------------------------------------------
(* weatherGrid taken alone, on a drawn grid, for every pair of states *)

\* weatherGrid(1, checkedState, newState) is entered
WeatherEntered ==
    /\ DrawnGrid({Margin})
    /\ pc = "weatherGrid"
    /\ passes = 1
    /\ checkedState \in States
    /\ newState \in States
    /\ islands = 0
    /\ newIsland = NoIsland
    /\ stopped = FALSE
    /\ i = 0
    /\ x = 0
    /\ y = 0
    /\ formerGrid = <<>>
    /\ passStart = <<>>
    /\ r = -1
    /\ numTrees = 0
    /\ maxTrees = 0
    /\ neighbors = 0

NextWeather ==
    \/ WeatherPassBegin
    \/ WeatherCell
    \/ WeatherPassEnd
    \/ WeatherReturn

InitWeather == script = "part_002" /\ WeatherEntered

SpecWeather == InitWeather /\ [][NextWeather]_vars

InitWeatherStarter == script = "part_001" /\ WeatherEntered

SpecWeatherStarter == InitWeatherStarter /\ [][NextWeather]_vars

----------------------------------------------------------------------------
(* weatherGrid taken alone with all its passes, for every pair of two      *)
(* different states                                                        *)

\* weatherGrid(weatheringPasses, checkedState, newState) is entered
WeatherEnteredForAllPasses ==
    /\ DrawnGrid({Margin})
    /\ pc = "weatherGrid"
    /\ passes = WeatheringPasses
    /\ checkedState \in States
    /\ newState \in States \ {checkedState}
    /\ islands = 0
    /\ newIsland = NoIsland
    /\ stopped = FALSE
    /\ i = 0
    /\ x = 0
    /\ y = 0
    /\ formerGrid = <<>>
    /\ passStart = <<>>
    /\ r = -1
    /\ numTrees = 0
    /\ maxTrees = 0
    /\ neighbors = 0

InitPasses == script = "part_002" /\ WeatherEnteredForAllPasses

SpecPasses == InitPasses /\ [][NextWeather]_vars

InitPassesStarter == script = "part_001" /\ WeatherEnteredForAllPasses

SpecPassesStarter == InitPassesStarter /\ [][NextWeather]_vars

----------------------------------------------------------------------------
(* weatherGrid taken alone with all its passes, in either revision, on     *)
(* grids that hold all three states: stripes of water, land and tree       *)

\* stripes of three states along x ("x"), along y ("y"), or slanted ("xy")
ThreeStripedStates(kind, a, b, c) ==
    [cx \in 0 .. (Boxes - 1) |-> [cy \in 0 .. (Boxes - 1) |->
        LET n == CASE kind = "x" -> cx
                   [] kind = "y" -> cy
                   [] OTHER -> cx + cy
        IN  CASE n % 3 = 0 -> a
              [] n % 3 = 1 -> b
              [] OTHER -> c]]

\* weatherGrid(weatheringPasses, checkedState, newState) is entered on a
\* grid of three states
InitThreeStates ==
    /\ script \in {"part_001", "part_002"}
    /\ \E kind \in {"x", "y", "xy"}, a \in States :
       \E b \in States \ {a} :
       \E c \in States \ {a, b} :
           myGrid = GridOfStates(Margin, ThreeStripedStates(kind, a, b, c))
    /\ islandProperties = [minDim |-> MinDim, maxDim |-> MaxDim,
                           minCount |-> MinCount, maxCount |-> MaxCount]
    /\ todo = <<>>
    /\ thrown = "none"
    /\ pc = "weatherGrid"
    /\ passes = WeatheringPasses
    /\ checkedState \in States
    /\ newState \in States \ {checkedState}
    /\ islands = 0
    /\ newIsland = NoIsland
    /\ stopped = FALSE
    /\ i = 0
    /\ x = 0
    /\ y = 0
    /\ formerGrid = <<>>
    /\ passStart = <<>>
    /\ r = -1
    /\ numTrees = 0
    /\ maxTrees = 0
    /\ neighbors = 0

SpecThreeStates == InitThreeStates /\ [][NextWeather]_vars

----------------------------------------------------------------------------
(* checkNeighbors taken alone: any cell and any state, on a drawn grid *)

InitNeighbors ==
    /\ script \in {"part_001", "part_002"}
    /\ DrawnGrid({Margin})
    /\ pc = "idle"
    /\ NoLocals

\* "let neighbors = checkNeighbors(myGrid.statesArray(), x, y, state)"
CallCheckNeighbors ==
    /\ pc = "idle"
    /\ \E c \in Cells, s \in States :
        /\ x' = c[1]
        /\ y' = c[2]
        /\ checkedState' = s
        /\ neighbors' = checkNeighbors(statesArray(myGrid), c[1], c[2], s)
    /\ pc' = "checkNeighbors"
    /\ UNCHANGED <<script, myGrid, islandProperties, todo, islands, newIsland,
                   stopped, passes, newState, i, formerGrid, passStart, r,
                   numTrees, maxTrees, thrown>>

NextNeighbors == CallCheckNeighbors

SpecNeighbors == InitNeighbors /\ [][NextNeighbors]_vars

----------------------------------------------------------------------------
(* generateIslands taken alone, on a new grid, for every margin below half *)
(* the grid and every minDim <= maxDim below the size of the grid; the     *)
(* loop makes one round (maxCount is 1)                                    *)

InitIslands ==
    /\ script \in {"part_001", "part_002"}
    /\ \E m \in 0 .. Margin, lo \in 1 .. (Boxes - 1), hi \in 1 .. (Boxes - 1) :
        /\ 2 * m < Boxes
        /\ lo <= hi
        /\ myGrid = Grid(Boxes, m)
        /\ islandProperties = [minDim |-> lo, maxDim |-> hi,
                               minCount |-> 0, maxCount |-> 1]
    /\ pc = "generateIslands"
    /\ todo = <<>>
    /\ thrown = "none"
    /\ NoLocals

NextIslands ==
    \/ GenerateIsland
    \/ GenerateIslandsReturn

SpecIslands == InitIslands /\ [][NextIslands]_vars

----------------------------------------------------------------------------
(* The resizing of generateIslands taken alone: newIsland holds a drawn    *)
(* corner anywhere in the grid and drawn dimensions within minDim..maxDim  *)

InitFit ==
    /\ script = "part_002"
    /\ \E m \in 0 .. Margin, lo \in 1 .. (Boxes - 1), hi \in 1 .. (Boxes - 1) :
        /\ 2 * m < Boxes
        /\ lo <= hi
        /\ myGrid = Grid(Boxes, m)
        /\ islandProperties = [minDim |-> lo, maxDim |-> hi,
                               minCount |-> 0, maxCount |-> 1]
    /\ pc = "resize"
    /\ todo = <<>>
    /\ thrown = "none"
    /\ islands = 0
    /\ \E c \in Cells :
       \E w, h \in islandProperties.minDim .. islandProperties.maxDim :
           newIsland = [cornerX |-> c[1], cornerY |-> c[2],
                        width |-> w, height |-> h]
    /\ stopped = FALSE
    /\ passes = 0
    /\ checkedState = "none"
    /\ newState = "none"
    /\ i = 0
    /\ x = 0
    /\ y = 0
    /\ formerGrid = <<>>
    /\ passStart = <<>>
    /\ r = -1
    /\ numTrees = 0
    /\ maxTrees = 0
    /\ neighbors = 0

\* the two "if" of the resizing
ResizeIsland ==
    /\ pc = "resize"
    /\ newIsland' = ResizeToFit(myGrid, newIsland)
    /\ pc' = "resized"
    /\ UNCHANGED <<script, myGrid, islandProperties, todo, islands, stopped,
                   passes, checkedState, newState, i, x, y, formerGrid,
                   passStart, r, numTrees, maxTrees, neighbors, thrown>>

NextFit == ResizeIsland

SpecFit == InitFit /\ [][NextFit]_vars

----------------------------------------------------------------------------
(* new Grid taken alone, for every size up to Boxes and every margin below *)
(* half the size, followed by one round of generateIslands                 *)

\* "let myGrid;": no grid is made yet
NoGrid ==
    [boxArray |-> <<>>, width |-> 0, height |-> 0, lowMargin |-> 0,
     highXMargin |-> 0, highYMargin |-> 0]

InitGrid ==
    /\ script \in {"part_001", "part_002"}
    /\ myGrid = NoGrid
    /\ \E lo \in 1 .. (Boxes - 1), hi \in 1 .. (Boxes - 1) :
        /\ lo <= hi
        /\ islandProperties = [minDim |-> lo, maxDim |-> hi,
                               minCount |-> 0, maxCount |-> 1]
    /\ pc = "newGrid"
    /\ todo = <<>>
    /\ thrown = "none"
    /\ NoLocals

\* "myGrid = new Grid(boxes, canvasDimensions, margin)"
NewGrid ==
    /\ pc = "newGrid"
    /\ \E size \in 1 .. Boxes, m \in 0 .. Boxes :
        /\ 2 * m < size
        /\ myGrid' = Grid(size, m)
    /\ pc' = "generateIslands"
    /\ UNCHANGED <<script, islandProperties, todo, islands, newIsland,
                   stopped, passes, checkedState, newState, i, x, y,
                   formerGrid, passStart, r, numTrees, maxTrees, neighbors,
                   thrown>>

NextGrid ==
    \/ NewGrid
    \/ GenerateIsland
    \/ GenerateIslandsReturn

SpecGrid == InitGrid /\ [][NextGrid]_vars

----------------------------------------------------------------------------
(* initializeGrid up to the end of generateIslands, for any margin and any *)
(* islandProperties, as the code takes them: neither the Grid constructor  *)
(* nor generateIslands tests what it is given                              *)

InitConfig ==
    /\ script \in {"part_001", "part_002"}
    /\ myGrid = NoGrid
    /\ \E lo \in 1 .. MaxDim, hi \in 1 .. MaxDim :
       \E lc \in 0 .. MinCount, hc \in 0 .. MinCount :
           islandProperties = [minDim |-> lo, maxDim |-> hi,
                               minCount |-> lc, maxCount |-> hc]
    /\ pc = "newGrid"
    /\ todo = <<>>
    /\ thrown = "none"
    /\ NoLocals

\* "myGrid = new Grid(boxes, canvasDimensions, margin)" for any margin
NewGridOfAnyMargin ==
    /\ pc = "newGrid"
    /\ \E m \in 0 .. (Boxes \div 2 + 1) : myGrid' = Grid(Boxes, m)
    /\ pc' = "generateIslands"
    /\ UNCHANGED <<script, islandProperties, todo, islands, newIsland,
                   stopped, passes, checkedState, newState, i, x, y,
                   formerGrid, passStart, r, numTrees, maxTrees, neighbors,
                   thrown>>

NextConfig ==
    \/ NewGridOfAnyMargin
    \/ GenerateIsland
    \/ GenerateIslandsReturn

SpecConfig == InitConfig /\ [][NextConfig]_vars

----------------------------------------------------------------------------
(* generateIslands taken alone on the grid of the program, for every       *)
(* minCount <= maxCount up to MaxCount                                     *)

InitCounts ==
    /\ script \in {"part_001", "part_002"}
    /\ myGrid = Grid(Boxes, Margin)
    /\ \E lc \in 0 .. MaxCount, hc \in 0 .. MaxCount :
        /\ lc <= hc
        /\ islandProperties = [minDim |-> MinDim, maxDim |-> MaxDim,
                               minCount |-> lc, maxCount |-> hc]
    /\ pc = "generateIslands"
    /\ todo = <<>>
    /\ thrown = "none"
    /\ NoLocals

SpecCounts == InitCounts /\ [][NextIslands]_vars

----------------------------------------------------------------------------
(* generateIslands followed by cleanGrid, as in an initializeGrid whose     *)
(* weathering draws convert no cell, for the margins 1 .. Margin; the loop *)
(* of generateIslands makes up to two rounds                               *)

InitIslandsClean ==
    /\ script \in {"part_001", "part_002"}
    /\ \E m \in 1 .. Margin : myGrid = Grid(Boxes, m)
    /\ islandProperties = [minDim |-> MinDim, maxDim |-> MaxDim,
                           minCount |-> 0, maxCount |-> 2]
    /\ pc = "generateIslands"
    /\ todo = <<"cleanGrid">>
    /\ thrown = "none"
    /\ NoLocals

NextIslandsClean ==
    \/ GenerateIsland
    \/ GenerateIslandsReturn
    \/ CallCleanGrid
    \/ CleanCell
    \/ CleanReturn

SpecIslandsClean == InitIslandsClean /\ [][NextIslandsClean]_vars

----------------------------------------------------------------------------
(* treePlace taken alone, called any number of times on a grid striped in  *)
(* two or in three states, its draws taken as fair                         *)

InitTrees ==
    /\ script = "part_002"
    /\ \E kind \in {"x", "y", "xy"}, a \in States, b \in States :
       \E c \in States :
           \/ myGrid = GridOfStates(Margin, StripedStates(kind, a, b))
           \/ myGrid = GridOfStates(Margin, ThreeStripedStates(kind, a, b, c))
    /\ islandProperties = [minDim |-> MinDim, maxDim |-> MaxDim,
                           minCount |-> MinCount, maxCount |-> MaxCount]
    /\ todo = <<>>
    /\ thrown = "none"
    /\ pc = "idle"
    /\ NoLocals

NextTrees ==
    \/ CallTreePlace
    \/ TreePlacePick
    \/ TreePlaceReturn

SpecTreesFair ==
    /\ InitTrees
    /\ [][NextTrees]_vars
    /\ WF_vars(TreePlacePick)
    /\ WF_vars(TreePlaceReturn)

----------------------------------------------------------------------------
(* What the claims speak of, defined from their own words *)

\* the state an array of states holds for cell c
StateAt(array, c) == array[c[1]][c[2]]

\* the state cell c of the grid has now
StateNow(c) == myGrid.boxArray[c[1]][c[2]].currentState

\* c lies in [margin, size - margin) on both axes
InsideMargins(c) ==
    /\ myGrid.lowMargin <= c[1] /\ c[1] < myGrid.width - myGrid.lowMargin
    /\ myGrid.lowMargin <= c[2] /\ c[2] < myGrid.height - myGrid.lowMargin

\* the cells of the grid that share an edge with c
EdgeNeighbours(c) ==
    {d \in Cells : Abs(d[1] - c[1]) + Abs(d[2] - c[2]) = 1}

\* the cells of the grid that touch c at a corner only
DiagonalNeighbours(c) ==
    {d \in Cells : Abs(d[1] - c[1]) = 1 /\ Abs(d[2] - c[2]) = 1}

\* 1 for each edge neighbour in state s and 0.5 for each diagonal one
ClaimedInfluence(array, c, s) ==
    One * Cardinality({d \in EdgeNeighbours(c) : StateAt(array, d) = s})
    + (One \div 2)
        * Cardinality({d \in DiagonalNeighbours(c) : StateAt(array, d) = s})

\* the rectangle [cornerX, cornerX+width) x [cornerY, cornerY+height)
Rectangle(island) ==
    {c \in (island.cornerX .. (island.cornerX + island.width - 1)) \X
           (island.cornerY .. (island.cornerY + island.height - 1)) : TRUE}

\* a loop of weatherGrid or cleanGrid has visited its last cell
PassOver == ~(x < myGrid.highXMargin)

----------------------------------------------------------------------------
(* C1 *)

\* the draw k / RandRes is below neighborChance * n
DrawConverts(k, n) ==
    k >= 0 /\ k * One * One < RandRes * NeighborChance * n

\* C1: in a weathering pass, the visit of cell (x, y) turns it into
\* newState exactly when it was in checkedState at the start of the pass
\* and its draw r is below neighborChance * n, n being the newState
\* influence of its neighbours in the pass-start states; it leaves the cell
\* as it was at pass start otherwise, and changes no other cell.
C1_DecisionFromPassStart ==
    [][(pc = "weatherPass" /\ pc' = "weatherPass") =>
        statesArray(myGrid') =
            [statesArray(myGrid) EXCEPT ![x][y] =
                IF /\ passStart[x][y] = checkedState
                   /\ DrawConverts(r', ClaimedInfluence(passStart, <<x, y>>,
                                                        newState))
                THEN newState
                ELSE passStart[x][y]]]_vars

\* a pass is over in which a cell was converted next to a cell visited later
C1_Witness ==
    /\ pc = "weatherPass"
    /\ PassOver
    /\ \E c, d \in LoopCells(myGrid) :
        /\ d \in EdgeNeighbours(c)
        /\ Before(c, d)
        /\ StateAt(passStart, c) = checkedState
        /\ StateAt(passStart, d) = checkedState
        /\ StateNow(c) = newState
        /\ checkedState # newState

----------------------------------------------------------------------------
(* C2 *)

\* cell c went from land to water or from water to land during cleanGrid
Flipped(c) ==
    \/ StateAt(passStart, c) = BoxStates.land /\ StateNow(c) = BoxStates.water
    \/ StateAt(passStart, c) = BoxStates.water /\ StateNow(c) = BoxStates.land

\* C2: when cleanGrid has visited every cell, a cell inside the margins is
\* flipped exactly when it was land or water at the start and its own-state
\* influence in the states at the start was below minNeighbors.
C2_CleanFromOneSnapshot ==
    (pc = "cleanPass" /\ PassOver) =>
        \A c \in Cells : InsideMargins(c) =>
            (Flipped(c) <=>
                /\ StateAt(passStart, c) \in {BoxStates.land, BoxStates.water}
                /\ ClaimedInfluence(passStart, c, StateAt(passStart, c))
                       < MinNeighbors)

----------------------------------------------------------------------------
(* C3 *)

\* C3: no step of weatherGrid, whatever the pass and whatever the two
\* states it was called with, changes the state of a cell outside the
\* margins.
C3_WeatherKeepsMargin ==
    [][(pc = "weatherGrid" \/ pc = "weatherPass") =>
        (\A c \in Cells : ~InsideMargins(c) =>
            (myGrid'.boxArray[c[1]][c[2]].currentState = StateNow(c)))]_vars

\* weatherGrid is over and has changed the grid, and a cell outside the
\* margins was in checkedState with newState neighbours
C3_Witness ==
    /\ pc = "weatherGrid"
    /\ i = passes
    /\ checkedState # newState
    /\ statesArray(myGrid) # passStart
    /\ \E c \in Cells :
        /\ ~InsideMargins(c)
        /\ StateAt(passStart, c) = checkedState
        /\ ClaimedInfluence(passStart, c, newState) > 0

----------------------------------------------------------------------------
(* C4 *)

\* C4: in every state of initializeGrid and of the treePlace and
\* spreadTrees calls that follow, every cell outside the margins is water.
C4_MarginStaysWater ==
    \A c \in Cells : ~InsideMargins(c) => StateNow(c) = BoxStates.water

\* initializeGrid is over, a tree was placed, spreadTrees was called, and
\* land touches the margin
C4_Witness ==
    /\ pc = "idle"
    /\ thrown = "ReferenceError"
    /\ \E c \in Cells : StateNow(c) = BoxStates.tree
    /\ \E c \in Cells :
        /\ StateNow(c) = BoxStates.land
        /\ \E d \in EdgeNeighbours(c) : ~InsideMargins(d)

----------------------------------------------------------------------------
(* C5 *)

\* C5: every index pair generateIslands uses is a cell of the grid, every
\* cell of an island lies inside the margins, and so does every land cell.
C5_IslandInsideMargins ==
    /\ thrown # "TypeError"
    /\ \A c \in Rectangle(newIsland) : c \in Cells /\ InsideMargins(c)
    /\ \A c \in Cells : StateNow(c) = BoxStates.land => InsideMargins(c)

----------------------------------------------------------------------------
(* C6 *)

\* C6: checkNeighbors returns 1 for each edge neighbour in the state asked
\* for plus 0.5 for each diagonal one, reads cells of the grid only and
\* never the cell itself; the value is a multiple of 0.5 from 0 to 6, 6
\* when all eight neighbours match and 0 when none does.
C6_InfluenceIsWeightedCount ==
    pc = "checkNeighbors" =>
        LET c == <<x, y>>
            around == EdgeNeighbours(c) \cup DiagonalNeighbours(c)
            matching == {d \in around : StateNow(d) = checkedState}
        IN  /\ neighbors = ClaimedInfluence(statesArray(myGrid), c, checkedState)
            /\ NeighborReads(x, y) \subseteq Cells
            /\ c \notin NeighborReads(x, y)
            /\ neighbors \in {(One \div 2) * j : j \in 0 .. 12}
            /\ (Cardinality(matching) = 8 => neighbors = 6 * One)
            /\ (matching = {} => neighbors = 0)

\* checkNeighbors was called for a corner cell all of whose three
\* neighbours match
C6_Witness ==
    /\ pc = "checkNeighbors"
    /\ x = 0
    /\ y = myGrid.height - 1
    /\ neighbors = 2 * One + One \div 2

----------------------------------------------------------------------------
(* C8 *)

\* C8: when cleanGrid has visited every cell, every cell inside the margins
\* that was land with only water neighbours at the start is water.
C8_IsolatedLandBecomesWater ==
    (pc = "cleanPass" /\ PassOver) =>
        \A c \in Cells :
            (/\ InsideMargins(c)
             /\ StateAt(passStart, c) = BoxStates.land
             /\ \A d \in EdgeNeighbours(c) \cup DiagonalNeighbours(c) :
                    StateAt(passStart, d) = BoxStates.water)
            => StateNow(c) = BoxStates.water

\* cleanGrid is over and the cell it visited last was land among water
C8_Witness ==
    /\ pc = "cleanPass"
    /\ PassOver
    /\ LET c == <<myGrid.highXMargin - 1, myGrid.highYMargin - 1>>
       IN  /\ InsideMargins(c)
           /\ c # <<myGrid.lowMargin, myGrid.lowMargin>>
           /\ StateAt(passStart, c) = BoxStates.land
           /\ \A d \in EdgeNeighbours(c) \cup DiagonalNeighbours(c) :
                  StateAt(passStart, d) = BoxStates.water

----------------------------------------------------------------------------
(* C9 *)

\* C9: while cleanGrid runs and when it is over, every cell that was a tree
\* at the start is a tree.
C9_CleanKeepsTrees ==
    pc = "cleanPass" =>
        \A c \in Cells :
            StateAt(passStart, c) = BoxStates.tree => StateNow(c) = BoxStates.tree

\* cleanGrid is over, has flipped a cell, and a tree inside the margins had
\* a tree influence below minNeighbors
C9_Witness ==
    /\ pc = "cleanPass"
    /\ PassOver
    /\ statesArray(myGrid) # passStart
    /\ \E c \in Cells :
        /\ InsideMargins(c)
        /\ StateAt(passStart, c) = BoxStates.tree
        /\ ClaimedInfluence(passStart, c, BoxStates.tree) < MinNeighbors

----------------------------------------------------------------------------
(* C10 *)

\* C10: a round of generateIslands sets the cells of its rectangle to land
\* and leaves every other cell as it was, and placing the same rectangle
\* again changes nothing.
C10_IslandSetsItsRectangle ==
    [][(pc = "generateIslands" /\ pc' = "generateIslands") =>
        /\ \A c \in Cells :
            myGrid'.boxArray[c[1]][c[2]].currentState =
                IF c \in Rectangle(newIsland') THEN BoxStates.land
                ELSE StateNow(c)
        /\ PlaceIsland(myGrid', newIsland') = myGrid']_vars

\* an island was placed on a grid that had land outside its rectangle, and
\* water is left
C10_Witness ==
    /\ pc = "generateIslands"
    /\ islands >= 2
    /\ Rectangle(newIsland) # {}
    /\ \E c \in Cells : StateNow(c) = BoxStates.land /\ c \notin Rectangle(newIsland)
    /\ \E c \in Cells : StateNow(c) = BoxStates.water

----------------------------------------------------------------------------
(* C11 *)

\* the smaller of two numbers
Min(a, b) == IF a < b THEN a ELSE b

\* C11: the resizing keeps the drawn corner, makes the width the smaller of
\* the drawn width and highXMargin - cornerX, and the height the smaller of
\* the drawn height and highYMargin - cornerY.
C11_ResizeShrinksNeverShifts ==
    [][(pc = "resize") =>
        /\ newIsland'.cornerX = newIsland.cornerX
        /\ newIsland'.cornerY = newIsland.cornerY
        /\ newIsland'.width =
               Min(newIsland.width, myGrid.highXMargin - newIsland.cornerX)
        /\ newIsland'.height =
               Min(newIsland.height, myGrid.highYMargin - newIsland.cornerY)]_vars

\* an island drawn 5 wide (minDim = maxDim = 5) at cornerX = size - margin - 1
\* was resized: it is 1 wide, at the same corner
C11_Witness ==
    /\ pc = "resized"
    /\ islandProperties.minDim = 5
    /\ islandProperties.maxDim = 5
    /\ myGrid.lowMargin = Margin
    /\ newIsland.cornerX = myGrid.width - myGrid.lowMargin - 1
    /\ newIsland.width = 1

----------------------------------------------------------------------------
(* C12 *)

\* the stage of the pipeline that is running or about to be called: 1 island
\* generation, 2 weathering of water into land, 3 weathering of land into
\* water, 4 cleaning, 5 the pipeline is over
Stage ==
    CASE pc = "generateIslands" -> 1
      [] pc = "weatherLand" -> 2
      [] pc = "weatherWater" -> 3
      [] pc \in {"weatherGrid", "weatherPass"} ->
            (IF checkedState = BoxStates.water /\ newState = BoxStates.land
             THEN 2
             ELSE IF checkedState = BoxStates.land /\ newState = BoxStates.water
             THEN 3 ELSE 0)
      [] pc \in {"cleanGrid", "cleanPass"} -> 4
      [] OTHER -> 5

\* what a step of stage n may do to the state of one cell (what is written
\* once the pipeline is over, n = 5, is no write of a stage)
StageWrites(n, before, after) ==
    \/ after = before
    \/ n = 5
    \/ n \in {1, 2} /\ before = BoxStates.water /\ after = BoxStates.land
    \/ n = 3 /\ before = BoxStates.land /\ after = BoxStates.water
    \/ n = 4 /\ {before, after} = {BoxStates.land, BoxStates.water}

\* C12: the stages run in the order island generation, weathering of water
\* into land, weathering of land into water, cleaning: a step stays in its
\* stage or moves to the next one, a weathering stage is left only when all
\* its passes are made, the step that moves on leaves the grid as it is, and
\* every write is a write of the stage that is running.
C12_StagesInOrder ==
    [][/\ Stage' \in {Stage, Stage + 1}
       /\ Stage # 0
       /\ (Stage' # Stage => myGrid' = myGrid)
       /\ (Stage \in {2, 3} /\ Stage' # Stage => i = WeatheringPasses)
       /\ \A c \in Cells :
            StageWrites(Stage, StateNow(c),
                        myGrid'.boxArray[c[1]][c[2]].currentState)]_vars

\* the last stage has run on what the weathering left, and has written
C12_Witness ==
    /\ pc = "cleanPass"
    /\ PassOver
    /\ statesArray(myGrid) # passStart
    /\ todo = <<>>

----------------------------------------------------------------------------
(* C13 *)

\* C13: the array weatherGrid gets from statesArray at the start of a pass
\* has one entry per cell, equal to the state of that cell at the call, and
\* the call changes no cell; the setState calls of the pass that follow
\* leave every entry of the array as it was.
C13_StatesArrayIsACopy ==
    [][/\ (pc = "weatherGrid" /\ pc' = "weatherPass") =>
            /\ myGrid' = myGrid
            /\ DOMAIN formerGrid' = 0 .. (myGrid.width - 1)
            /\ \A cx \in 0 .. (myGrid.width - 1) :
                   DOMAIN formerGrid'[cx] = 0 .. (myGrid.height - 1)
            /\ \A c \in Cells : StateAt(formerGrid', c) = StateNow(c)
       /\ (pc = "weatherPass" /\ pc' = "weatherPass") =>
            formerGrid' = formerGrid]_vars

\* a pass is over that has changed boxes after statesArray was called, and
\* the array still holds their former states
C13_Witness ==
    /\ script = "part_002"
    /\ pc = "weatherPass"
    /\ PassOver
    /\ \E c \in Cells :
        /\ StateAt(formerGrid, c) = checkedState
        /\ StateNow(c) = newState
        /\ checkedState # newState

----------------------------------------------------------------------------
(* C14 *)

----------------------------------------------------------------------------
(* C15 *)

\* C15: every change of the state of a cell is water to land, land to water
\* or land to tree: no cell goes from water to tree, and a tree stays a
\* tree.
C15_CellStateMachine ==
    [][\A c \in Cells :
        LET before == StateNow(c)
            after == myGrid'.boxArray[c[1]][c[2]].currentState
        IN  \/ after = before
            \/ before = BoxStates.water /\ after = BoxStates.land
            \/ before = BoxStates.land /\ after = BoxStates.water
            \/ before = BoxStates.land /\ after = BoxStates.tree]_vars

\* treePlace has made a tree, water is left inside the margins where its
\* draws fall, and it goes on drawing
C15_Witness ==
    /\ pc = "treePlace"
    /\ numTrees >= 1
    /\ numTrees < maxTrees
    /\ \E c \in Cells : StateNow(c) = BoxStates.tree
    /\ \E c \in Cells : InsideMargins(c) /\ StateNow(c) = BoxStates.water

----------------------------------------------------------------------------
(* C16 *)

\* margin >= half of the grid size, or minDim > maxDim, or minCount > maxCount
InvalidConfiguration ==
    \/ 2 * myGrid.lowMargin >= myGrid.width
    \/ islandProperties.minDim > islandProperties.maxDim
    \/ islandProperties.minCount > islandProperties.maxCount

\* C16: once initializeGrid has begun with an invalid configuration, an
\* InvalidConfigurationError is thrown, no box exists and none was set to
\* land.
C16_InvalidConfigurationRejected ==
    (pc # "newGrid" /\ InvalidConfiguration) =>
        /\ thrown = "InvalidConfigurationError"
        /\ myGrid.boxArray = <<>>

----------------------------------------------------------------------------
(* C17 *)

\* the colour setup gives each state: color(0, 112, 236) to water,
\* color(128, 208, 16) to land, color(0, 168, 0) to tree
ColourOf(s) ==
    CASE s = "water" -> <<0, 112, 236>>
      [] s = "land" -> <<128, 208, 16>>
      [] s = "tree" -> <<0, 168, 0>>

\* C17: in every state, every box has one of the three states and its
\* fillColor is the colour of its currentState.
C17_ColourMatchesState ==
    \A c \in Cells :
        LET box == myGrid.boxArray[c[1]][c[2]]
        IN  /\ box.currentState \in {"water", "land", "tree"}
            /\ box.fillColor = ColourOf(box.currentState)

\* boxes of each of the three states exist, each with its colour, the tree
\* having been land and water before
C17_Witness ==
    /\ pc = "idle"
    /\ \E c \in Cells : myGrid.boxArray[c[1]][c[2]].fillColor = <<0, 168, 0>>
    /\ \E c \in Cells : myGrid.boxArray[c[1]][c[2]].fillColor = <<128, 208, 16>>
    /\ \E c \in Cells : InsideMargins(c)
                        /\ myGrid.boxArray[c[1]][c[2]].fillColor = <<0, 112, 236>>

----------------------------------------------------------------------------
(* C18 *)

\* C18: every pass of weatherGrid begins by reading the grid as it is then,
\* that is as the pass before left it, and within a pass the visit of cell
\* (x, y) converts it exactly when it was in checkedState as the pass began
\* and its draw is below neighborChance * n, n counting the newState
\* neighbours as the pass began: a cell converted in a pass counts from the
\* next pass on, and not in the pass that converted it.
C18_FreshStatesEachPass ==
    [][/\ (pc = "weatherGrid" /\ pc' = "weatherPass") =>
            /\ myGrid' = myGrid
            /\ \A c \in Cells : StateAt(formerGrid', c) = StateNow(c)
       /\ (pc = "weatherPass" /\ pc' = "weatherPass") =>
            LET start == [cx \in 0 .. (myGrid.width - 1) |->
                              [cy \in 0 .. (myGrid.height - 1) |->
                                  StateAt(passStart, <<cx, cy>>)]]
                n == ClaimedInfluence(start, <<x, y>>, newState)
                converts == /\ start[x][y] = checkedState
                            /\ r' >= 0
                            /\ r' * One * One < RandRes * NeighborChance * n
            IN  \A c \in Cells :
                    myGrid'.boxArray[c[1]][c[2]].currentState =
                        IF c = <<x, y>> /\ converts THEN newState
                        ELSE StateNow(c)]_vars

----------------------------------------------------------------------------
(* C19 *)

\* the islands placed so far: the rounds before the one of index islands,
\* and that one too when the loop was left from it
IslandsPlaced == IF stopped THEN islands + 1 ELSE islands

\* the loop of generateIslands is over
GenerationOver ==
    pc = "generateIslands" /\ (stopped \/ islands >= islandProperties.maxCount)

\* C19: generateIslands never runs a round of index maxCount or more, makes
\* the stop draw and leaves the loop only from a round whose index is above
\* minCount and below maxCount, and has placed at least minCount and at most
\* maxCount islands when its loop is over.
C19_IslandCountWithinBounds ==
    [][(pc = "generateIslands" /\ pc' = "generateIslands") =>
        /\ islands < islandProperties.maxCount
        /\ islands' <= islandProperties.maxCount
        /\ (r' # r \/ stopped') =>
               /\ islands > islandProperties.minCount
               /\ islands < islandProperties.maxCount
        /\ GenerationOver' =>
               /\ IslandsPlaced' >= islandProperties.minCount
               /\ IslandsPlaced' <= islandProperties.maxCount]_vars

\* the loop was left early, from the first round that makes the stop draw
C19_Witness ==
    /\ pc = "generateIslands"
    /\ stopped
    /\ islands = islandProperties.minCount + 1
    /\ islands + 1 < islandProperties.maxCount
    /\ islandProperties.minCount >= 1

----------------------------------------------------------------------------
(* C20 *)

\* C20: in every round that makes the stop draw, the divisor
\* (maxCount - minCount) - (index - minCount) is at least 1; the stop chance
\* is breakChance + (1 - breakChance) / divisor, below 1 while the divisor
\* is above 1 and 1 when it is 1, which is at index maxCount - 1, where the
\* loop is left whatever the draw; the loop is left exactly when the draw is
\* below the chance.
C20_StopChanceWellDefined ==
    [][(/\ pc = "generateIslands"
        /\ pc' = "generateIslands"
        /\ islands > islandProperties.minCount
        /\ islands < islandProperties.maxCount) =>
        LET slots == (islandProperties.maxCount - islandProperties.minCount)
                        - (islands - islandProperties.minCount)
            chanceTimesSlots == StopChanceTimesSlots(islandProperties, islands)
        IN  /\ slots >= 1
            /\ remainingSlots(islandProperties, islands) = slots
            /\ chanceTimesSlots = BreakChance * slots + (One - BreakChance)
            /\ (slots > 1 => chanceTimesSlots < One * slots)
            /\ (slots = 1 <=> islands = islandProperties.maxCount - 1)
            /\ (slots = 1 => chanceTimesSlots = One /\ stopped')
            /\ r' \in Draws
            /\ (stopped' <=> r' * One * slots < RandRes * chanceTimesSlots)]_vars

\* the loop was left from the round of index maxCount - 1 on the largest
\* draw there is
C20_Witness ==
    /\ pc = "generateIslands"
    /\ stopped
    /\ islands = islandProperties.maxCount - 1
    /\ islands > islandProperties.minCount
    /\ r = RandRes - 1

----------------------------------------------------------------------------
(* C21 *)

\* cell c is land or water and the influence of the neighbours in its own
\* state, in the given states, is below minNeighbors
Stray(array, c) ==
    /\ StateAt(array, c) \in {BoxStates.land, BoxStates.water}
    /\ ClaimedInfluence(array, c, StateAt(array, c)) < MinNeighbors

----------------------------------------------------------------------------
(* C22 *)

\* the cells of the grid that are in state s now
CellsIn(s) == {c \in Cells : StateNow(c) = s}

\* the cells of the grid that are in state s after the step
CellsInNext(s) ==
    {c \in Cells : myGrid'.boxArray[c[1]][c[2]].currentState = s}

\* C22: every change of state a step of weatherGrid makes takes a cell from
\* checkedState to newState: the cells in newState stay in it, no cell comes
\* into checkedState, and the cells in the third state stay as they are; so
\* with land for checkedState and water for newState, as in the second
\* weathering stage of initializeGrid, the land after a step is part of the
\* land before it.
C22_WeatheringOneWay ==
    [][(pc = "weatherGrid" \/ pc = "weatherPass") =>
        /\ \A c \in Cells :
            LET before == StateNow(c)
                after == myGrid'.boxArray[c[1]][c[2]].currentState
            IN  after # before => before = checkedState /\ after = newState
        /\ CellsIn(newState) \subseteq CellsInNext(newState)
        /\ CellsInNext(checkedState) \subseteq CellsIn(checkedState)
        /\ \A s \in States \ {checkedState, newState} :
            CellsInNext(s) = CellsIn(s)
        /\ (checkedState = BoxStates.land /\ newState = BoxStates.water) =>
            CellsInNext(BoxStates.land) \subseteq CellsIn(BoxStates.land)]_vars

\* all passes are made, from land into water, on a grid that holds trees
\* inside the margins, and the last pass, which was not the first, has
\* converted a cell that the passes before it had left as land
C22_Witness ==
    /\ pc = "weatherGrid"
    /\ i = passes
    /\ i >= 2
    /\ checkedState = BoxStates.land
    /\ newState = BoxStates.water
    /\ statesArray(myGrid) # passStart
    /\ \E c \in CellsIn(BoxStates.tree) : InsideMargins(c)

----------------------------------------------------------------------------
(* C23 *)

\* minDim <= maxDim and minDim <= size - 2 * margin
RoomForAnIsland ==
    /\ islandProperties.minDim <= islandProperties.maxDim
    /\ islandProperties.minDim <= myGrid.width - 2 * myGrid.lowMargin

\* C23: when minDim <= maxDim and minDim <= size - 2 * margin, every round
\* of generateIslands places its island without an exception, and the
\* island is, after the resizing, at least minDim wide and minDim high.
C23_RoomForMinimalIsland ==
    [][(pc = "generateIslands" /\ ~GenerationOver /\ RoomForAnIsland) =>
        /\ thrown' = "none"
        /\ newIsland'.width >= islandProperties.minDim
        /\ newIsland'.height >= islandProperties.minDim]_vars

\* an island was placed where minDim is all the room there is between the
\* margins and a larger width can be drawn: it reaches from margin to margin
C23_Witness ==
    /\ pc = "generateIslands"
    /\ islands = 1
    /\ thrown = "none"
    /\ islandProperties.minDim >= 2
    /\ islandProperties.minDim = myGrid.width - 2 * myGrid.lowMargin
    /\ islandProperties.maxDim > islandProperties.minDim
    /\ newIsland.cornerX = myGrid.lowMargin
    /\ newIsland.width = islandProperties.minDim
    /\ newIsland.height = islandProperties.minDim

----------------------------------------------------------------------------
(* C24 *)

\* C24: a call of spreadTrees through keyReleased ends without an exception
\* and changes no cell but land cells inside the margins, which it may turn
\* into trees.
C24_SpreadTreesCompletes ==
    [][(pc = "idle" /\ pc' = "idle") =>
        /\ thrown' = "none"
        /\ \A c \in Cells :
            LET before == StateNow(c)
                after == myGrid'.boxArray[c[1]][c[2]].currentState
            IN  after # before =>
                    /\ InsideMargins(c)
                    /\ before = BoxStates.land
                    /\ after = BoxStates.tree]_vars

----------------------------------------------------------------------------
(* C25 *)

\* the cells whose state the step changes
CellsChanged ==
    {c \in Cells : myGrid'.boxArray[c[1]][c[2]].currentState # StateNow(c)}

\* C25: a call of treePlace begins with no cell converted; each of its
\* steps changes at most one cell, a land cell inside the margins that it
\* turns into a tree, and counts it; when treePlace returns, the number of
\* cells it has converted is maxTrees, which is at least minTrees and at
\* most maxTrees for every minTrees from 0 to maxTrees.
C25_TreePlaceConvertsLandOnly ==
    [][/\ (pc = "idle" /\ pc' = "treePlace") =>
            numTrees' = 0 /\ CellsChanged = {}
       /\ (pc = "treePlace") =>
            /\ \A c \in CellsChanged :
                /\ InsideMargins(c)
                /\ StateNow(c) = BoxStates.land
                /\ myGrid'.boxArray[c[1]][c[2]].currentState = BoxStates.tree
            /\ Cardinality(CellsChanged) <= 1
            /\ (pc' = "treePlace" =>
                    numTrees' = numTrees + Cardinality(CellsChanged))
            /\ (pc' # "treePlace" =>
                    /\ CellsChanged = {}
                    /\ numTrees <= maxTrees
                    /\ \A minTrees \in 0 .. maxTrees : numTrees >= minTrees)]_vars

\* treePlace has made the largest number of trees it is asked for and is
\* about to return, with water, which its draws can fall on, and land left
\* inside the margins
C25_Witness ==
    /\ pc = "treePlace"
    /\ maxTrees = MaxTreesArg
    /\ numTrees = maxTrees
    /\ Cardinality({c \in Cells : StateNow(c) = BoxStates.tree}) >= MaxTreesArg
    /\ \E c \in Cells : InsideMargins(c) /\ StateNow(c) = BoxStates.water
    /\ \E c \in Cells : InsideMargins(c) /\ StateNow(c) = BoxStates.land

----------------------------------------------------------------------------
(* C26 *)

\* the land cells inside the margins
LandInside == {c \in Cells : InsideMargins(c) /\ StateNow(c) = BoxStates.land}

\* C26: a call of treePlace on a grid that holds at least maxTrees land
\* cells inside the margins, and so at least maxTrees - numTrees of them
\* after numTrees rounds, returns, the draws being fair.
C26_TreePlaceTerminates ==
    (pc = "treePlace" /\ Cardinality(LandInside) >= maxTrees - numTrees)
        ~> (pc = "idle")

\* treePlace, called for the largest number of trees on a grid with just as
\* many land cells inside the margins, has made all but one of them, and
\* its draws can fall on water
C26_Witness ==
    /\ pc = "treePlace"
    /\ maxTrees = MaxTreesArg
    /\ numTrees = maxTrees - 1
    /\ Cardinality(LandInside) = 1
    /\ \E c \in Cells : InsideMargins(c) /\ StateNow(c) = BoxStates.water

====
